---- MODULE Spec2Model ----
(***************************************************************************)
(* Icon Normalizer, Figma plugin (src/figma-plugin/code.js).               *)
(*                                                                         *)
(* Four specifications share this module:                                  *)
(*   Spec      the plugin session: main() (selection, export, request),    *)
(*             the reply of the UI iframe, and the normalize-results       *)
(*             handler (createOutput / createComponentSet).                *)
(*   GeomSpec  outlineAndFlatten(comp) applied to a bounded size-node      *)
(*             subtree under a bounded behaviour of the host primitives.   *)
(*   NameSpec  the naming of createComponentSet applied to a bounded       *)
(*             display name.                                               *)
(*   ReentrySpec  the normalize-results handler when the UI delivers more  *)
(*             than one message: its suspension points and what runs       *)
(*             between them.                                               *)
(* src/unnamed/part_000 is an earlier revision of the same file whose       *)
(* normalizer (outlineAllStrokes) has no flatten and no safety pass; the   *)
(* model follows code.js.                                                  *)
(* The host document API is an external collaborator: wherever the code    *)
(* wraps a host call in try/catch, the call's outcome (return / throw) is  *)
(* a nondeterministic input.                                               *)
(***************************************************************************)
EXTENDS Integers, Sequences, FiniteSets, TLC

\* ------------------------------------------------------------------ bounds
\* Longest multi-selection.
MaxSel == 2
\* Most children of a selected container.
MaxKids == 3
\* Most nodes of a size-node's imported subtree (GeomSpec).
MaxNodes == 3
\* Longest display name drawn from the alphabet (NameSpec).
MaxNameLen == 4
\* Most normalize-results messages delivered (ReentrySpec).
MaxMessages == 2
\* Most error-free results of one message (ReentrySpec).
MaxBatch == 3

\* --------------------------------------------------------- program constants
\* Faulty variant of MaxPasses: the loop test is pass <= 5.
MaxPassesInclusive == 5 + 1

\* code.js:84  for (let pass = 0; pass < 5; pass++)
MaxPasses == 5
\* Faulty variant of sizes: the last two sizes exchanged.
sizesReordered == <<16, 32, 24>>

\* code.js:190  const sizes = [16, 24, 32];
sizes == <<16, 24, 32>>

VARIABLES
  selection,      \* figma.currentPage.selection: sequence of nodes
  pc,             \* position of the session (see the actions)
  nodes,          \* main: the list getIconNodes returned
  icons,          \* main: the list exportIcons returned
  posted,         \* number of normalize-icons messages posted to the UI
  notifications,  \* sequence of figma.notify calls
  closed,         \* figma.closePlugin() has been called
  results,        \* the results of the normalize-results message
  successResults, \* createOutput: results.filter(r => r.error === null)
  failedResults,  \* createOutput: results.filter(r => r.error !== null)
  idx,            \* createOutput: index into successResults of the current icon
  sizeIdx,        \* createComponentSet: index into sizes of the current size
  components,     \* createComponentSet: the local list components
  outputFrame,    \* the output container: [exists, children]
  page,           \* components created on the page and never moved into the container
  errors,         \* console.error log: sequence of [what, icon]
  tree,           \* GeomSpec: comp.children, a sequence of nodes
  host,           \* GeomSpec: behaviour of outlineStroke and flatten
  gpc,            \* GeomSpec: "ready" | "done" | "again"
  run,            \* GeomSpec: what the last outlineAndFlatten call did
  name,           \* NameSpec: result.name, a sequence of characters
  named,          \* NameSpec: [base, components]: the names createComponentSet gives
  npc,            \* NameSpec: "ready" | "named"
  hpc,            \* ReentrySpec: position of the handler of each message:
                  \*   "idle" | "font" | "yield" | "done"
  hleft,          \* ReentrySpec: successResults of each message not yet assembled
  hsize,          \* ReentrySpec: index in sizes of the size a handler waits on
  frames,         \* ReentrySpec: output containers each handler has created
  rclosed         \* ReentrySpec: figma.closePlugin() has been called

vars == <<selection, pc, nodes, icons, posted, notifications, closed, results,
          successResults, failedResults, idx, sizeIdx, components, outputFrame,
          page, errors, tree, host, gpc, run, name, named, npc, hpc, hleft,
          hsize, frames, rclosed>>

sessionVars == <<selection, pc, nodes, icons, posted, notifications, closed,
                 results, successResults, failedResults, idx, sizeIdx,
                 components, outputFrame, page, errors>>

geomVars == <<tree, host, gpc, run>>

nameVars == <<name, named, npc>>

reentryVars == <<hpc, hleft, hsize, frames, rclosed>>

\* What the actions of one specification leave alone.
offSession == <<geomVars, nameVars, reentryVars>>

offGeom == <<sessionVars, nameVars, reentryVars>>

offName == <<sessionVars, geomVars, reentryVars>>

offReentry == <<sessionVars, geomVars, nameVars>>

\* ----------------------------------------------------------------- helpers
\* All sequences over S of a length in lo..hi.
SeqsOf(S, lo, hi) == UNION {[1..n -> S] : n \in lo..hi}

Range(s) == {s[i] : i \in 1..Len(s)}

\* ------------------------------------------------------- selection (inputs)
\* A document node of the selection: id, type, visible, exportAsync
\* ("absent": the node has no exportAsync; "ok"; "throws": exportAsync
\* rejects), hasChildren ('children' in node) and children.
NodeAttrs ==
  { [visible |-> TRUE,  exportAsync |-> "ok"],
    [visible |-> TRUE,  exportAsync |-> "throws"],
    [visible |-> FALSE, exportAsync |-> "ok"],
    [visible |-> TRUE,  exportAsync |-> "absent"] }

ContainerTypes == {"FRAME", "COMPONENT", "INSTANCE"}

LeafNode(i, a) ==
  [id |-> i, type |-> "VECTOR", visible |-> a.visible,
   exportAsync |-> a.exportAsync, hasChildren |-> FALSE, children |-> <<>>]

ContainerNode(i, t, a, kids) ==
  [id |-> i, type |-> t, visible |-> a.visible,
   exportAsync |-> a.exportAsync, hasChildren |-> TRUE,
   children |-> [j \in 1..Len(kids) |-> LeafNode(10 * i + j, kids[j])]]

\* One selected node: a leaf, or a container with 0..MaxKids leaf children.
SingleSelections ==
  {<<LeafNode(1, a)>> : a \in NodeAttrs}
  \cup {<<ContainerNode(1, t, a, kids)>> :
          t \in ContainerTypes, a \in NodeAttrs,
          kids \in SeqsOf(NodeAttrs, 0, MaxKids)}

\* Several selected nodes: leaves, or exportable frames with one
\* exportable child.
MultiKinds ==
  (NodeAttrs \X {"VECTOR"})
  \cup {<<[visible |-> TRUE, exportAsync |-> "ok"], "FRAME">>}

MultiNode(i, k) ==
  IF k[2] = "VECTOR" THEN LeafNode(i, k[1])
  ELSE ContainerNode(i, "FRAME", k[1],
                     <<[visible |-> TRUE, exportAsync |-> "ok"]>>)

MultiSelections ==
  {[i \in 1..Len(ks) |-> MultiNode(i, ks[i])] : ks \in SeqsOf(MultiKinds, 2, MaxSel)}

Selections == {<<>>} \cup SingleSelections \cup MultiSelections

\* A figma.notify call: kind names the message, error the {error: true}
\* option, n and failed the numbers the message text carries.
Note(kind, error, n, failed) ==
  [kind |-> kind, error |-> error, n |-> n, failed |-> failed]

\* ------------------------------------------------------- Selection Resolver
isExportableNode(node) == node.exportAsync # "absent" /\ node.visible

\* Faulty variant of getIconNodes: a component or instance is unwrapped like any
\* other container.
getIconNodesUnwrapping(sel) ==
  IF Len(sel) = 0
  THEN [nodes |-> <<>>, notes |-> <<Note("select", TRUE, 0, 0)>>,
        closed |-> TRUE]
  ELSE
    LET found(l) == [nodes |-> l, notes |-> <<>>, closed |-> FALSE]
        fallback == found(SelectSeq(sel, isExportableNode))
    IN IF Len(sel) = 1 /\ sel[1].hasChildren /\ Len(sel[1].children) > 0
       THEN LET children == SelectSeq(sel[1].children, isExportableNode)
            IN IF Len(children) > 0 THEN found(children) ELSE fallback
       ELSE fallback

\* Faulty variant of getIconNodes: the empty selection is reported but the
\* plugin is not closed.
getIconNodesLeftOpen(sel) ==
  IF Len(sel) = 0
  THEN [nodes |-> <<>>, notes |-> <<Note("select", TRUE, 0, 0)>>,
        closed |-> FALSE]
  ELSE
    LET found(l) == [nodes |-> l, notes |-> <<>>, closed |-> FALSE]
        fallback == found(SelectSeq(sel, isExportableNode))
    IN IF Len(sel) = 1 /\ sel[1].hasChildren /\ Len(sel[1].children) > 0
       THEN LET node == sel[1]
                children == SelectSeq(node.children, isExportableNode)
            IN IF node.type = "COMPONENT" \/ node.type = "INSTANCE"
               THEN found(<<node>>)
               ELSE IF Len(children) > 0 THEN found(children) ELSE fallback
       ELSE fallback

\* getIconNodes(): [nodes, notes, closed] - the list returned, the
\* notifications shown and whether closePlugin was called.
getIconNodes(sel) ==
  IF Len(sel) = 0
  THEN [nodes |-> <<>>, notes |-> <<Note("select", TRUE, 0, 0)>>,
        closed |-> TRUE]
  ELSE
    LET found(l) == [nodes |-> l, notes |-> <<>>, closed |-> FALSE]
        fallback == found(SelectSeq(sel, isExportableNode))
    IN IF Len(sel) = 1 /\ sel[1].hasChildren /\ Len(sel[1].children) > 0
       THEN LET node == sel[1]
                children == SelectSeq(node.children, isExportableNode)
            IN IF node.type = "COMPONENT" \/ node.type = "INSTANCE"
               THEN found(<<node>>)
               ELSE IF Len(children) > 0 THEN found(children) ELSE fallback
       ELSE fallback

\* ------------------------------------------------------------------ Exporter
\* Faulty variant of exportIcons: the first export that throws ends the loop.
RECURSIVE exportIconsAborting(_)
exportIconsAborting(ns) ==
  IF ns = <<>> THEN <<>>
  ELSE IF Head(ns).exportAsync = "ok"
       THEN <<[id |-> Head(ns).id]>> \o exportIconsAborting(Tail(ns))
       ELSE <<>>

\* exportIcons(nodes): one icon per node whose exportAsync resolves; a node
\* whose export throws is logged and dropped.
RECURSIVE exportIcons(_)
exportIcons(ns) ==
  IF ns = <<>> THEN <<>>
  ELSE (IF Head(ns).exportAsync = "ok"
        THEN <<[id |-> Head(ns).id]>> ELSE <<>>) \o exportIcons(Tail(ns))

\* ------------------------------------------------- Geometry Normalizer input
\* A node below a size-node: strokes is the length of its stroke list,
\* children its child sequence (empty for a node without children).
GeomNode(s, c) == [strokes |-> s, children |-> c]

\* The child sequences (ordered forests) of exactly n nodes.
RECURSIVE ForestsOf(_)
ForestsOf(n) ==
  IF n = 0 THEN {<<>>}
  ELSE UNION {{<<GeomNode(s, c)>> \o r :
                 s \in 0..1, c \in ForestsOf(k), r \in ForestsOf(n - 1 - k)} :
              k \in 0..(n - 1)}

Trees == UNION {ForestsOf(n) : n \in 0..MaxNodes}

\* Behaviour of the host primitives during one outlineAndFlatten call.
\* outline[pass]: what node.outlineStroke() does in that pass of the loop:
\*   "throw"      throws, the node is left as it is;
\*   "fill"       replaces the node by one fill-only node (code.js:67);
\*   "composite"  replaces the node by a composite whose sub-shape carries
\*                a stroke again (code.js:68, "outlining can create new
\*                structures").
\* flatten: figma.flatten returns ("ok") or throws ("throw").
OutlineKinds == {"throw", "fill", "composite"}

Hosts == [outline : [0..(MaxPasses - 1) -> OutlineKinds],
          flatten : {"ok", "throw"}]

FillNode == GeomNode(0, <<>>)

CompositeNode == GeomNode(0, <<GeomNode(1, <<>>)>>)

\* ------------------------------------------------------- Geometry Normalizer
\* collectStrokedNodes(parent): the paths (child indices from the size-node
\* down) of the stroked descendants, each child before its own descendants.
RECURSIVE CollectFrom(_, _, _)
CollectFrom(kids, prefix, i) ==
  IF i > Len(kids) THEN <<>>
  ELSE LET child == kids[i]
           p == Append(prefix, i)
       IN (IF child.strokes > 0 THEN <<p>> ELSE <<>>)
          \o CollectFrom(child.children, p, 1)
          \o CollectFrom(kids, prefix, i + 1)

collectStrokedNodes(kids) == CollectFrom(kids, <<>>, 1)

\* The child sequence with the node at path replaced by new.
RECURSIVE ReplaceAt(_, _, _)
ReplaceAt(kids, path, new) ==
  IF Len(path) = 1 THEN [kids EXCEPT ![path[1]] = new]
  ELSE [kids EXCEPT ![path[1]] =
          [@ EXCEPT !.children = ReplaceAt(@, Tail(path), new)]]

IsProperPrefix(a, b) == Len(a) < Len(b) /\ SubSeq(b, 1, Len(a)) = a

\* outlineStroke() on the node at path.
outlineStroke(kids, path, kind) ==
  IF kind = "fill" THEN ReplaceAt(kids, path, FillNode)
  ELSE IF kind = "composite" THEN ReplaceAt(kids, path, CompositeNode)
  ELSE kids

\* The body of one pass: for (const node of stroked), from position k on.
\* gone holds the replaced nodes; a node below one of them is removed.
RECURSIVE OutlineNodes(_, _, _, _, _)
OutlineNodes(kids, stroked, k, gone, kind) ==
  IF k > Len(stroked) THEN kids
  ELSE IF \E g \in gone : IsProperPrefix(g, stroked[k])
       THEN OutlineNodes(kids, stroked, k + 1, gone, kind)
       ELSE OutlineNodes(outlineStroke(kids, stroked[k], kind), stroked, k + 1,
                         IF kind = "throw" THEN gone
                         ELSE gone \cup {stroked[k]}, kind)

\* Phase 1, from pass on: [children, passes, broke, scans] - the children
\* after the loop, the passes begun, whether the loop left by break, and
\* the number of stroked nodes each pass collected.
RECURSIVE OutlinePasses(_, _, _)
OutlinePasses(kids, pass, h) ==
  IF pass >= MaxPasses
  THEN [children |-> kids, passes |-> pass, broke |-> FALSE, scans |-> <<>>]
  ELSE LET stroked == collectStrokedNodes(kids)
       IN IF Len(stroked) = 0
          THEN [children |-> kids, passes |-> pass + 1, broke |-> TRUE,
                scans |-> <<0>>]
          ELSE LET rest == OutlinePasses(
                             OutlineNodes(kids, stroked, 1, {}, h.outline[pass]),
                             pass + 1, h)
               IN [rest EXCEPT !.scans = <<Len(stroked)>> \o @]

\* Phase 2 and 3: figma.flatten([...comp.children], comp) and the clearing
\* of the flattened result's strokes; a throw leaves the children alone.
Flatten(kids, h) ==
  IF Len(kids) > 0 /\ h.flatten = "ok" THEN <<FillNode>> ELSE kids

\* Safety pass: clear the strokes of every remaining child of comp.
ClearChildStrokes(kids) ==
  [i \in 1..Len(kids) |-> [kids[i] EXCEPT !.strokes = 0]]

\* outlineAndFlatten(comp) on comp.children = kids under host behaviour h.
outlineAndFlatten(kids, h) ==
  LET o == OutlinePasses(kids, 0, h)
  IN [children |-> ClearChildStrokes(Flatten(o.children, h)),
      passes |-> o.passes, broke |-> o.broke, scans |-> o.scans,
      entered |-> Len(collectStrokedNodes(kids)),
      flattened |-> Len(o.children) > 0 /\ h.flatten = "ok"]

\* Faulty variant of main: the request is posted without the check that the
\* Exporter produced an icon.
mainPostingUnchecked(sel) ==
  LET g == getIconNodes(sel)
      ic == exportIcons(g.nodes)
      started == g.notes \o <<Note("normalizing", FALSE, Len(g.nodes), 0)>>
  IN IF Len(g.nodes) = 0
     THEN [nodes |-> g.nodes, icons |-> <<>>, notes |-> g.notes,
           closed |-> g.closed, posted |-> 0]
     ELSE [nodes |-> g.nodes, icons |-> ic, notes |-> started,
           closed |-> g.closed, posted |-> 1]

\* ----------------------------------------------------------------- main()
\* main(): [nodes, icons, notes, closed, posted] - the two lists, the
\* notifications shown, whether closePlugin was called, and the number of
\* normalize-icons messages posted.
main(sel) ==
  LET g == getIconNodes(sel)
      ic == exportIcons(g.nodes)
      started == g.notes \o <<Note("normalizing", FALSE, Len(g.nodes), 0)>>
  IN IF Len(g.nodes) = 0
     THEN [nodes |-> g.nodes, icons |-> <<>>, notes |-> g.notes,
           closed |-> g.closed, posted |-> 0]
     ELSE IF Len(ic) = 0
     THEN [nodes |-> g.nodes, icons |-> ic,
           notes |-> Append(started, Note("noexport", TRUE, 0, 0)),
           closed |-> TRUE, posted |-> 0]
     ELSE [nodes |-> g.nodes, icons |-> ic, notes |-> started,
           closed |-> g.closed, posted |-> 1]

\* ------------------------------------------------------ Variant Assembler
\* The per-size markup of a result: parses tells whether createNodeFromSvg
\* accepts it, children is the child sequence of the frame it yields: no
\* child, one stroked shape, or one group of one stroked shape.  Every
\* result of one message carries the same markup, for each of its sizes.
Markups ==
  {[parses |-> FALSE, children |-> <<>>]}
  \cup {[parses |-> TRUE, children |-> t] :
          t \in {<<>>, <<GeomNode(1, <<>>)>>,
                 <<GeomNode(0, <<GeomNode(1, <<>>)>>)>>}}

\* Host behaviours met while assembling: outlineStroke always throws or
\* always fills, flatten returns or throws.
ConstantHost(kind, fl) ==
  [outline |-> [p \in 0..(MaxPasses - 1) |-> kind], flatten |-> fl]

AssemblyHosts ==
  {ConstantHost(kind, fl) : kind \in {"throw", "fill"}, fl \in {"ok", "throw"}}

\* A component created by figma.createComponent() for result r and resized
\* to size x size, holding n children.
Component(r, size, n) ==
  [kind |-> "component", icon |-> r.id, size |-> size, nchildren |-> n]

\* A text node created by figma.createText() for the placeholder.
TextNode(r, size) ==
  [kind |-> "text", icon |-> r.id, size |-> size, nchildren |-> 0]

\* Faulty variant of combineAsVariants: the new component set is inserted as the
\* first child of the parent.
combineAsVariantsFirst(cs, children, r) ==
  <<[kind |-> "set", icon |-> r.id, variants |-> cs]>>
  \o SelectSeq(children, LAMBDA c : c \notin Range(cs))

\* figma.combineAsVariants(components, parentFrame), called without an
\* index: the components leave the parent's child list and the new
\* component set is appended to it as the last child.
combineAsVariants(cs, children, r) ==
  Append(SelectSeq(children, LAMBDA c : c \notin Range(cs)),
         [kind |-> "set", icon |-> r.id, variants |-> cs])

\* Faulty variant of SuccessOf: no filter.
SuccessOfUnfiltered(rs) == rs

\* Faulty variant of FailedOf: the filter of SuccessOf.
FailedOfSwapped(rs) == SelectSeq(rs, LAMBDA r : r.error = "null")

\* results.filter(r => r.error === null) and its complement.
SuccessOf(rs) == SelectSeq(rs, LAMBDA r : r.error = "null")

FailedOf(rs) == SelectSeq(rs, LAMBDA r : r.error # "null")

\* The completion notification of createOutput.
CompletionNote(succ, failed) == Note("created", FALSE, Len(succ), Len(failed))

\* ------------------------------------------------------------------ naming
\* A name is a sequence of one-character strings.
Alphabet == {"_", "-", "1", "2", "3", "4", "6", "d", "D", "p"}

\* Names beyond the alphabet or the length bound: "home", "home_24",
\* "p-24dp", "p_32DP", "p16_16dP".
ExampleNames ==
  { <<"h", "o", "m", "e">>,
    <<"h", "o", "m", "e", "_", "2", "4">>,
    <<"p", "-", "2", "4", "d", "p">>,
    <<"p", "_", "3", "2", "D", "P">>,
    <<"p", "1", "6", "_", "1", "6", "d", "P">> }

Names == SeqsOf(Alphabet, 0, MaxNameLen) \cup ExampleNames

\* Case folding of the i flag.
Lower(c) == IF c = "D" THEN "d" ELSE IF c = "P" THEN "p" ELSE c

\* (16|24|32)(dp)?$ matches s from position j to its end.
MatchesSize(s, j) ==
  /\ j + 1 <= Len(s)
  /\ <<s[j], s[j + 1]>> \in {<<"1", "6">>, <<"2", "4">>, <<"3", "2">>}
  /\ \/ j + 1 = Len(s)
     \/ /\ j + 3 = Len(s)
        /\ Lower(s[j + 2]) = "d"
        /\ Lower(s[j + 3]) = "p"

\* [_\-]?(16|24|32)(dp)?$ matches s from position i to its end: with the
\* separator taken, or on backtracking without it.
MatchesAt(s, i) ==
  \/ i <= Len(s) /\ s[i] \in {"_", "-"} /\ MatchesSize(s, i + 1)
  \/ MatchesSize(s, i)

\* The start of the leftmost match at or after position i, 0 if none.
RECURSIVE FindMatch(_, _)
FindMatch(s, i) ==
  IF i > Len(s) THEN 0
  ELSE IF MatchesAt(s, i) THEN i ELSE FindMatch(s, i + 1)

\* Faulty variant of baseName: the match is searched from the position
\* of the last separator only.
baseNameFromSeparator(s) ==
  LET seps == {i \in 1..Len(s) : s[i] \in {"_", "-"}}
      i == IF seps = {} THEN 0
           ELSE CHOOSE k \in seps : \A l \in seps : l <= k
  IN IF i > 0 /\ MatchesAt(s, i) THEN SubSeq(s, 1, i - 1) ELSE s

\* result.name.replace(/[_\-]?(16|24|32)(dp)?$/i, '')
baseName(s) ==
  LET i == FindMatch(s, 1)
  IN IF i = 0 THEN s ELSE SubSeq(s, 1, i - 1)

\* `${size}`: the decimal digits of a two-digit size.
Digit(d) == <<"0", "1", "2", "3", "4", "5", "6", "7", "8", "9">>[d + 1]

SizeText(size) == <<Digit(size \div 10), Digit(size % 10)>>

\* The names createComponentSet gives for result.name = s: the component
\* set's name and the names of the components, in loop order.
createComponentSetNames(s) ==
  [base |-> baseName(s),
   components |-> [k \in 1..Len(sizes) |->
                     baseName(s) \o <<"_">> \o SizeText(sizes[k])]]

NameIdle ==
  /\ name = <<>>
  /\ named = [base |-> <<>>, components |-> <<>>]
  /\ npc = "off"

ReentryIdle ==
  /\ hpc = <<>>
  /\ hleft = <<>>
  /\ hsize = <<>>
  /\ frames = <<>>
  /\ rclosed = FALSE

\* --------------------------------------------------------- session: Init
OutputFrameNode ==
  [id |-> 0, type |-> "FRAME", visible |-> TRUE, exportAsync |-> "ok",
   hasChildren |-> TRUE, children |-> <<>>]

NoRun ==
  [children |-> <<>>, passes |-> 0, broke |-> FALSE, scans |-> <<>>,
   entered |-> 0, flattened |-> FALSE]

GeomIdle ==
  /\ tree = <<>>
  /\ host = ConstantHost("throw", "throw")
  /\ gpc = "off"
  /\ run = NoRun

SessionStart(sel) ==
  /\ selection = sel
  /\ pc = "start"
  /\ nodes = <<>>
  /\ icons = <<>>
  /\ posted = 0
  /\ notifications = <<>>
  /\ closed = FALSE
  /\ results = <<>>
  /\ successResults = <<>>
  /\ failedResults = <<>>
  /\ idx = 0
  /\ sizeIdx = 0
  /\ components = <<>>
  /\ outputFrame = [exists |-> FALSE, children |-> <<>>]
  /\ page = <<>>
  /\ errors = <<>>

Init ==
  /\ \E sel \in Selections : SessionStart(sel)
  /\ GeomIdle
  /\ NameIdle
  /\ ReentryIdle

\* ------------------------------------------------------ session: actions
\* main(), started once when the plugin is loaded (code.js:285).
Main ==
  /\ pc = "start"
  /\ LET m == main(selection)
     IN /\ nodes' = m.nodes
        /\ icons' = m.icons
        /\ notifications' = notifications \o m.notes
        /\ closed' = m.closed
        /\ posted' = posted + m.posted
        /\ pc' = IF m.posted > 0 THEN "waiting" ELSE "ended"
  /\ UNCHANGED <<selection, results, successResults, failedResults, idx,
                 sizeIdx, components, outputFrame, page, errors>>
  /\ UNCHANGED offSession

\* The UI iframe answers the request: one result per icon, in order, each
\* with error null or an error string.
UIReply ==
  /\ pc = "waiting"
  /\ ~closed
  /\ \E e \in [1..Len(icons) -> {"null", "err"}], m \in Markups :
       results' = [i \in 1..Len(icons) |->
                     [id |-> icons[i].id, error |-> e[i], svg |-> m]]
  /\ pc' = "message"
  /\ UNCHANGED <<selection, nodes, icons, posted, notifications, closed,
                 successResults, failedResults, idx, sizeIdx, components,
                 outputFrame, page, errors>>
  /\ UNCHANGED offSession

\* onmessage -> createOutput, up to the loop over successResults: the
\* filters, the total-failure return, figma.createFrame() (may throw).
CreateOutputBegin ==
  /\ pc = "message"
  /\ successResults' = SuccessOf(results)
  /\ failedResults' = FailedOf(results)
  /\ IF Len(successResults') = 0
     THEN /\ notifications' = Append(notifications, Note("allfailed", TRUE, 0, 0))
          /\ pc' = "returned"
          /\ UNCHANGED <<outputFrame, idx, sizeIdx>>
     ELSE \/ /\ outputFrame' = [exists |-> TRUE, children |-> <<>>]
             /\ idx' = 1
             /\ sizeIdx' = 1
             /\ pc' = "assemble"
             /\ UNCHANGED notifications
          \/ /\ pc' = "threw"
             /\ UNCHANGED <<outputFrame, idx, sizeIdx, notifications>>
  /\ UNCHANGED <<selection, nodes, icons, posted, closed, results, components,
                 page, errors>>
  /\ UNCHANGED offSession

\* createComponentSet threw: the catch of createOutput's loop logs it; the
\* components created so far stay where they are (left on the page, or
\* kept already appended to the container).
AssemblyThrew(onPage, inFrame) ==
  /\ page' = page \o onPage
  /\ outputFrame' = [outputFrame EXCEPT !.children = @ \o inFrame]
  /\ errors' = Append(errors, [what |-> "assembly", icon |-> successResults[idx].id])
  /\ components' = <<>>
  /\ pc' = "yield"
  /\ UNCHANGED sizeIdx

\* createComponentSet, one turn of its loop over sizes (code.js:196-232).
AssembleSize ==
  /\ pc = "assemble"
  /\ sizeIdx <= Len(sizes)
  /\ LET r == successResults[idx]
         size == sizes[sizeIdx]
     IN \/ \* figma.createComponent() throws
           AssemblyThrew(components, <<>>)
        \/ \* the markup is imported and normalized
           /\ r.svg.parses
           /\ \E h \in AssemblyHosts :
                components' = Append(components,
                  Component(r, size,
                            Len(outlineAndFlatten(r.svg.children, h).children)))
           /\ sizeIdx' = sizeIdx + 1
           /\ UNCHANGED <<pc, page, outputFrame, errors>>
        \/ \* createNodeFromSvg throws: the '?' placeholder is appended
           /\ ~r.svg.parses
           /\ components' = Append(components, Component(r, size, 1))
           /\ errors' = Append(errors, [what |-> "import", icon |-> r.id])
           /\ sizeIdx' = sizeIdx + 1
           /\ UNCHANGED <<pc, page, outputFrame>>
        \/ \* createNodeFromSvg throws, then figma.createText() throws
           /\ ~r.svg.parses
           /\ AssemblyThrew(Append(components, Component(r, size, 0)), <<>>)
        \/ \* createNodeFromSvg throws, then loadFontAsync rejects
           /\ ~r.svg.parses
           /\ AssemblyThrew(
                components \o <<Component(r, size, 0), TextNode(r, size)>>, <<>>)
  /\ UNCHANGED <<selection, nodes, icons, posted, notifications, closed, results,
                 successResults, failedResults, idx>>
  /\ UNCHANGED offSession

\* createComponentSet after the loop (code.js:234-248): the components are
\* appended to the container and combined; either host call may throw.
AssembleCombine ==
  /\ pc = "assemble"
  /\ sizeIdx > Len(sizes)
  /\ LET r == successResults[idx]
     IN \/ \* parentFrame.appendChild throws at the j-th component
           \E j \in 1..Len(components) :
             AssemblyThrew(SubSeq(components, j, Len(components)),
                           SubSeq(components, 1, j - 1))
        \/ \* figma.combineAsVariants throws
           AssemblyThrew(<<>>, components)
        \/ /\ outputFrame' =
                [outputFrame EXCEPT !.children =
                   combineAsVariants(components, @ \o components, r)]
           /\ components' = <<>>
           /\ pc' = "yield"
           /\ UNCHANGED <<page, errors, sizeIdx>>
  /\ UNCHANGED <<selection, nodes, icons, posted, notifications, closed, results,
                 successResults, failedResults, idx>>
  /\ UNCHANGED offSession

\* await new Promise(r => setTimeout(r, 5)), then the next result.
Yield ==
  /\ pc = "yield"
  /\ idx' = idx + 1
  /\ IF idx' > Len(successResults)
     THEN pc' = "report" /\ UNCHANGED sizeIdx
     ELSE pc' = "assemble" /\ sizeIdx' = 1
  /\ UNCHANGED <<selection, nodes, icons, posted, notifications, closed, results,
                 successResults, failedResults, components, outputFrame, page,
                 errors>>
  /\ UNCHANGED offSession

\* createOutput's report (code.js:174-186).
Report ==
  /\ pc = "report"
  /\ notifications' =
       Append(notifications, CompletionNote(successResults, failedResults))
  /\ selection' = <<OutputFrameNode>>
  /\ pc' = "returned"
  /\ UNCHANGED <<nodes, icons, posted, closed, results, successResults,
                 failedResults, idx, sizeIdx, components, outputFrame, page,
                 errors>>
  /\ UNCHANGED offSession

\* The catch of the handler (code.js:276-279).
HandlerCatch ==
  /\ pc = "threw"
  /\ errors' = Append(errors, [what |-> "output", icon |-> 0])
  /\ notifications' = Append(notifications, Note("outputfailed", TRUE, 0, 0))
  /\ pc' = "returned"
  /\ UNCHANGED <<selection, nodes, icons, posted, closed, results,
                 successResults, failedResults, idx, sizeIdx, components,
                 outputFrame, page>>
  /\ UNCHANGED offSession

\* Faulty variant of HandlerClose: createOutput is not awaited, so the
\* plugin is closed at its first suspension.
HandlerCloseUnawaited ==
  /\ pc \in {"yield", "returned"}
  /\ closed' = TRUE
  /\ pc' = "closed"
  /\ UNCHANGED <<selection, nodes, icons, posted, notifications, results,
                 successResults, failedResults, idx, sizeIdx, components,
                 outputFrame, page, errors>>
  /\ UNCHANGED offSession

\* figma.closePlugin() at the end of the handler (code.js:280).
HandlerClose ==
  /\ pc = "returned"
  /\ closed' = TRUE
  /\ pc' = "closed"
  /\ UNCHANGED <<selection, nodes, icons, posted, notifications, results,
                 successResults, failedResults, idx, sizeIdx, components,
                 outputFrame, page, errors>>
  /\ UNCHANGED offSession

Next ==
  \/ Main
  \/ UIReply
  \/ CreateOutputBegin
  \/ AssembleSize
  \/ AssembleCombine
  \/ Yield
  \/ Report
  \/ HandlerCatch
  \/ HandlerClose

Spec == Init /\ [][Next]_vars

\* ------------------------------------------------------------- GeomSpec
SessionIdle ==
  /\ SessionStart(<<>>)

GeomInit ==
  /\ tree \in Trees
  /\ host \in Hosts
  /\ gpc = "ready"
  /\ run = NoRun
  /\ SessionIdle
  /\ NameIdle
  /\ ReentryIdle

\* outlineAndFlatten(comp): comp.children is mutated in place.
GeomRun ==
  /\ gpc = "ready"
  /\ run' = outlineAndFlatten(tree, host)
  /\ tree' = run'.children
  /\ gpc' = "done"
  /\ UNCHANGED host
  /\ UNCHANGED offGeom

\* outlineAndFlatten(comp) called once more on the same size-node.
GeomRunAgain ==
  /\ gpc = "done"
  /\ run' = outlineAndFlatten(tree, host)
  /\ tree' = run'.children
  /\ gpc' = "again"
  /\ UNCHANGED host
  /\ UNCHANGED offGeom

GeomNext ==
  \/ GeomRun
  \/ GeomRunAgain

GeomSpec == GeomInit /\ [][GeomNext]_vars

\* ------------------------------------------------------------- NameSpec
NameInit ==
  /\ name \in Names
  /\ named = [base |-> <<>>, components |-> <<>>]
  /\ npc = "ready"
  /\ SessionIdle
  /\ GeomIdle
  /\ ReentryIdle

\* createComponentSet names the component set and its components.
NameRun ==
  /\ npc = "ready"
  /\ named' = createComponentSetNames(name)
  /\ npc' = "named"
  /\ UNCHANGED name
  /\ UNCHANGED offName

NameNext == NameRun

NameSpec == NameInit /\ [][NameNext]_vars

\* ---------------------------------------------------------- ReentrySpec
\* The handlers of up to MaxMessages normalize-results messages, each
\* with up to MaxBatch successful results.  A handler runs to its next
\* await; two handlers interleave only at their awaits.
Handlers == 1..MaxMessages

ReentryInit ==
  /\ hpc = [h \in Handlers |-> "idle"]
  /\ hleft = [h \in Handlers |-> 0]
  /\ hsize = [h \in Handlers |-> 0]
  /\ frames = [h \in Handlers |-> 0]
  /\ rclosed = FALSE
  /\ SessionIdle
  /\ GeomIdle
  /\ NameIdle

\* createComponentSet of handler h runs from size index k: every size
\* before index j imports its markup, and size j, if there is one, fails
\* to import and awaits the font of the placeholder.  With no such size
\* the call returns or throws at combineAsVariants and createOutput
\* awaits its 5 ms timer.
RunComponentSet(h, k) ==
  \E j \in k..(Len(sizes) + 1) :
    IF j <= Len(sizes)
    THEN /\ hpc' = [hpc EXCEPT ![h] = "font"]
         /\ hsize' = [hsize EXCEPT ![h] = j]
    ELSE /\ hpc' = [hpc EXCEPT ![h] = "yield"]
         /\ hsize' = [hsize EXCEPT ![h] = 0]

\* figma.ui.onmessage with a normalize-results message of n successful
\* results: with none, createOutput notifies and returns and the handler
\* closes the plugin; otherwise createOutput creates the output container
\* and calls createComponentSet for the first result.
Deliver(h) ==
  /\ ~rclosed
  /\ hpc[h] = "idle"
  /\ \A g \in Handlers : g < h => hpc[g] # "idle"
  /\ \E n \in 0..MaxBatch :
       IF n = 0
       THEN /\ hpc' = [hpc EXCEPT ![h] = "done"]
            /\ rclosed' = TRUE
            /\ UNCHANGED <<hleft, hsize, frames>>
       ELSE /\ frames' = [frames EXCEPT ![h] = @ + 1]
            /\ hleft' = [hleft EXCEPT ![h] = n]
            /\ RunComponentSet(h, 1)
            /\ UNCHANGED rclosed
  /\ UNCHANGED offReentry

\* figma.loadFontAsync resolves: the placeholder is appended and the loop
\* over sizes goes on.
FontLoaded(h) ==
  /\ ~rclosed
  /\ hpc[h] = "font"
  /\ RunComponentSet(h, hsize[h] + 1)
  /\ UNCHANGED <<hleft, frames, rclosed>>
  /\ UNCHANGED offReentry

\* figma.loadFontAsync rejects: createComponentSet throws, createOutput
\* logs the error and awaits its 5 ms timer.
FontRejected(h) ==
  /\ ~rclosed
  /\ hpc[h] = "font"
  /\ hpc' = [hpc EXCEPT ![h] = "yield"]
  /\ hsize' = [hsize EXCEPT ![h] = 0]
  /\ UNCHANGED <<hleft, frames, rclosed>>
  /\ UNCHANGED offReentry

\* The 5 ms timer fires: createOutput goes to its next result, or reports
\* and returns and the handler closes the plugin.
Resume(h) ==
  /\ ~rclosed
  /\ hpc[h] = "yield"
  /\ hleft' = [hleft EXCEPT ![h] = @ - 1]
  /\ IF hleft[h] = 1
     THEN /\ hpc' = [hpc EXCEPT ![h] = "done"]
          /\ rclosed' = TRUE
          /\ UNCHANGED hsize
     ELSE /\ RunComponentSet(h, 1)
          /\ UNCHANGED rclosed
  /\ UNCHANGED frames
  /\ UNCHANGED offReentry

ReentryNext ==
  \E h \in Handlers :
    \/ Deliver(h)
    \/ FontLoaded(h)
    \/ FontRejected(h)
    \/ Resume(h)

ReentrySpec == ReentryInit /\ [][ReentryNext]_vars

\* ===================================================================
\* Properties
\* ===================================================================
\* The variant sets of the output container, in container order.
VariantSets == SelectSeq(outputFrame.children, LAMBDA c : c.kind = "set")

\* N and K of a batch: the results, and those carrying a non-null error.
NResults == Len(results)

KErrors == Cardinality({i \in 1..Len(results) : results[i].error # "null"})

\* createOutput has finished (returned or thrown and been caught).
OutputDone == pc \in {"returned", "closed"}

\* The completion notifications shown so far.
CompletionNotes == SelectSeq(notifications, LAMBDA n : n.kind = "created")

\* Position of the result of icon id in the normalize-results message.
ResultIndex(id) == CHOOSE i \in 1..Len(results) : results[i].id = id

\* C1: after createOutput on N >= 1 results of which K < N carry an error,
\* with no host call of the assembly throwing, the output container holds
\* exactly N - K variant sets and nothing else, each built from exactly 3
\* size-nodes resized to 16, 24 and 32 in that order.
C1_VariantSetsPerSuccess ==
  (OutputDone /\ NResults >= 1 /\ KErrors < NResults /\ errors = <<>>)
    => /\ outputFrame.exists
       /\ Len(outputFrame.children) = NResults - KErrors
       /\ Len(VariantSets) = NResults - KErrors
       /\ \A i \in 1..Len(VariantSets) :
            /\ Len(VariantSets[i].variants) = 3
            /\ \A j \in 1..3 : VariantSets[i].variants[j].kind = "component"
            /\ VariantSets[i].variants[1].size = 16
            /\ VariantSets[i].variants[2].size = 24
            /\ VariantSets[i].variants[3].size = 32

C1_Witness ==
  /\ pc = "closed"
  /\ errors = <<>>
  /\ NResults = 3
  /\ KErrors = 1
  /\ Len(VariantSets) = 2

\* C2: after outlineAndFlatten(comp) no node of comp's subtree, immediate
\* child or nested descendant, has a non-empty stroke list.
C2_NoStrokeInSubtree ==
  gpc = "done" => collectStrokedNodes(tree) = <<>>

\* C3: if outlineStroke throws on every node it is invoked on, no node of
\* the size-node's content has an active stroke after outlineAndFlatten.
C3_NoStrokeWhenOutlineAlwaysThrows ==
  (gpc = "done" /\ \A p \in DOMAIN host.outline : host.outline[p] = "throw")
    => Len(collectStrokedNodes(tree)) = 0

\* C4: the success count of the completion notification equals the number
\* of variant sets created, and when assembly completed for no icon an
\* error is reported and no success notification is shown.
C4_SuccessCountIsSetsCreated ==
  OutputDone =>
    /\ \A i \in 1..Len(CompletionNotes) : CompletionNotes[i].n = Len(VariantSets)
    /\ (results # <<>> /\ Len(VariantSets) = 0) =>
         /\ CompletionNotes = <<>>
         /\ \E i \in 1..Len(notifications) : notifications[i].error

\* C5: an invocation that ended without sending a normalize-icons request
\* has notified the user of an error and closed the session.
C5_NoSilentStop ==
  (pc = "ended" /\ posted = 0)
    => /\ closed
       /\ \E i \in 1..Len(notifications) : notifications[i].error

\* C6: if every one of the N results carries an error, createOutput
\* creates no container and no variant set, a total-failure notification
\* is reported, nothing is thrown, and the session is then closed.
C6_AllFailed ==
  (pc \notin {"start", "waiting", "ended", "message"} /\ KErrors = NResults)
    => /\ OutputDone
       /\ ~outputFrame.exists
       /\ outputFrame.children = <<>>
       /\ page = <<>>
       /\ errors = <<>>
       /\ notifications[Len(notifications)] = Note("allfailed", TRUE, 0, 0)
       /\ CompletionNotes = <<>>
       /\ (pc = "returned" => ~closed /\ ENABLED HandlerClose)
       /\ (pc = "closed" => closed)

C6_Witness ==
  /\ pc = "closed"
  /\ NResults = 2
  /\ KErrors = 2
  /\ closed

\* C7 as stated: with 0 < K < N failed normalizations the failure count of
\* the completion notification equals N - K.
C7_FailureCountIsNMinusK ==
  (OutputDone /\ 0 < KErrors /\ KErrors < NResults)
    => \A i \in 1..Len(CompletionNotes) :
         CompletionNotes[i].failed = NResults - KErrors

\* C7 amended: with 0 < K < N failed normalizations the failure count of
\* the completion notification equals K (and its success count N - K).
C7_FailureCountIsK ==
  (OutputDone /\ 0 < KErrors /\ KErrors < NResults)
    => \A i \in 1..Len(CompletionNotes) :
         /\ CompletionNotes[i].failed = KErrors
         /\ CompletionNotes[i].n = NResults - KErrors

C7_Witness ==
  /\ pc = "closed"
  /\ NResults = 3
  /\ KErrors = 1
  /\ Len(CompletionNotes) = 1
  /\ CompletionNotes[1].failed = 1

\* C8: the variant sets of the container are in the relative order of
\* their results in the normalize-results message, whatever failed.
C8_VariantSetOrder ==
  \A a, b \in 1..Len(VariantSets) :
    a < b => ResultIndex(VariantSets[a].icon) < ResultIndex(VariantSets[b].icon)

C8_Witness ==
  /\ pc = "closed"
  /\ NResults = 3
  /\ Len(VariantSets) = 2
  /\ Len(outputFrame.children) > 2
  /\ ResultIndex(VariantSets[1].icon) = 1
  /\ ResultIndex(VariantSets[2].icon) = 3

\* C9: when the selection is exactly one COMPONENT or INSTANCE node with at
\* least one child, getIconNodes returns exactly that node.
SingleComposed ==
  /\ Len(selection) = 1
  /\ selection[1].hasChildren
  /\ Len(selection[1].children) > 0
  /\ selection[1].type \in {"COMPONENT", "INSTANCE"}

C9_ComposedNotUnwrapped ==
  (pc # "start" /\ SingleComposed) => nodes = <<selection[1]>>

C9_Witness ==
  /\ pc = "waiting"
  /\ SingleComposed
  /\ selection[1].type = "INSTANCE"
  /\ Len(selection[1].children) = 2
  /\ isExportableNode(selection[1].children[1])
  /\ nodes = <<selection[1]>>

\* C10: at most one normalize-icons message is posted; once main has run,
\* exactly one was posted if the Exporter produced an icon, none otherwise
\* (in particular none for an empty selection), in every later state.
C10_OneRequest ==
  /\ posted <= 1
  /\ pc = "start" => posted = 0
  /\ pc # "start" => posted = (IF Len(icons) >= 1 THEN 1 ELSE 0)
  /\ (pc = "ended" /\ nodes = <<>>) => posted = 0

C10_Witness ==
  /\ pc = "closed"
  /\ posted = 1
  /\ Len(icons) = 2
  /\ Len(nodes) = 3

\* C11: exportIcons returns exactly one icon per node whose export
\* succeeded, in the order of the icon list; a node whose export throws is
\* dropped and does not keep later nodes from being exported.
ExportedIds == [i \in 1..Len(icons) |-> icons[i].id]

OkNodeIds ==
  LET ok == SelectSeq(nodes, LAMBDA n : n.exportAsync = "ok")
  IN [i \in 1..Len(ok) |-> ok[i].id]

C11_ExportKeepsSucceeded ==
  pc # "start" => ExportedIds = OkNodeIds

C11_Witness ==
  /\ pc = "waiting"
  /\ Len(nodes) = 3
  /\ nodes[1].exportAsync = "ok"
  /\ nodes[2].exportAsync = "throws"
  /\ nodes[3].exportAsync = "ok"
  /\ ExportedIds = <<nodes[1].id, nodes[3].id>>

\* C12: with an empty selection the invocation reports an error, closes
\* the session and does nothing else: nothing is exported, no
\* normalize-icons message is posted, no node is created, nothing follows.
C12_EmptySelectionAborts ==
  (pc # "start" /\ selection = <<>>)
    => /\ pc = "ended"
       /\ notifications = <<Note("select", TRUE, 0, 0)>>
       /\ closed
       /\ nodes = <<>>
       /\ icons = <<>>
       /\ posted = 0
       /\ results = <<>>
       /\ ~outputFrame.exists
       /\ outputFrame.children = <<>>
       /\ page = <<>>
       /\ errors = <<>>
       /\ ~ENABLED Next

C12_Witness ==
  /\ pc = "ended"
  /\ selection = <<>>
  /\ closed
  /\ Len(notifications) = 1

\* C14: an icon whose createComponentSet threw is dropped from the output:
\* the container holds no size-node and no variant set of that icon.
FailedAssemblies ==
  {errors[i].icon : i \in {j \in 1..Len(errors) : errors[j].what = "assembly"}}

C14_FailedIconDropped ==
  OutputDone =>
    \A i \in 1..Len(outputFrame.children) :
      outputFrame.children[i].icon \notin FailedAssemblies

\* C17: every node in the list returned by getIconNodes is visible and
\* supports vector export, on every branch of the resolver.
C17_IconNodesExportable ==
  pc # "start" =>
    \A i \in 1..Len(nodes) : nodes[i].visible /\ nodes[i].exportAsync # "absent"

\* C18: every size-node of a created variant set has at least one child,
\* imported content or the placeholder glyph.
C18_SizeNodeNeverEmpty ==
  \A i \in 1..Len(VariantSets) :
    \A j \in 1..Len(VariantSets[i].variants) :
      VariantSets[i].variants[j].nchildren >= 1

\* C20: the plugin is closed after the normalize-results message has been
\* handled, whether createOutput returned normally, reported total failure
\* or threw (then an error is notified), and never while createOutput is
\* still running: closePlugin follows createOutput's last mutation and
\* notification, and the handler always gets there.
HandlerRunning ==
  pc \in {"message", "assemble", "yield", "report", "threw", "returned"}

FinalNoteKinds == {"created", "allfailed", "outputfailed"}

C20_ClosedAfterOutput ==
  /\ HandlerRunning => (~closed /\ ENABLED Next)
  /\ pc = "returned" =>
       /\ ENABLED HandlerClose
       /\ notifications[Len(notifications)].kind \in FinalNoteKinds
  /\ pc = "closed" =>
       /\ closed
       /\ components = <<>>
       /\ notifications[Len(notifications)].kind \in FinalNoteKinds
       /\ (notifications[Len(notifications)].kind = "created"
             => idx = Len(successResults) + 1)
       /\ (notifications[Len(notifications)].kind = "outputfailed"
             => (notifications[Len(notifications)].error /\ ~outputFrame.exists))
       /\ ~ENABLED Next

C20_Witness ==
  /\ pc = "closed"
  /\ closed
  /\ notifications[Len(notifications)].kind = "outputfailed"
  /\ Len(errors) = 1

\* C15: the outline loop begins at most 5 passes, whatever the subtree and
\* the stroke-to-fill primitive do; every pass before the last one begun
\* found a stroked node, the loop leaves early exactly at the first pass
\* that finds none, and afterwards the flatten and strip phases have run
\* and the call has returned, even if strokes remain.
C15_OutlinePassesBounded ==
  gpc \in {"done", "again"} =>
       /\ Len(run.scans) >= 1
       /\ Len(run.scans) <= 5
       /\ run.passes = Len(run.scans)
       /\ \A i \in 1..(Len(run.scans) - 1) : run.scans[i] > 0
       /\ run.broke <=> run.scans[Len(run.scans)] = 0
       /\ Len(run.scans) < 5 => run.broke
       /\ (host.flatten = "ok" /\ tree # <<>>) => (run.flattened /\ Len(tree) = 1)
       /\ \A i \in 1..Len(tree) : tree[i].strokes = 0

C15_Witness ==
  /\ gpc = "done"
  /\ \A p \in DOMAIN host.outline : host.outline[p] = "composite"
  /\ Len(run.scans) = 5
  /\ ~run.broke
  /\ collectStrokedNodes(tree) # <<>>

\* C16: running outlineAndFlatten twice on the same size-node leaves zero
\* active strokes after the first and after the second run, and the second
\* run does not change the number of active strokes.
C16_TwiceLeavesNoStroke ==
  /\ gpc = "done" => Len(collectStrokedNodes(tree)) = 0
  /\ gpc = "again" =>
       /\ run.entered = 0
       /\ Len(collectStrokedNodes(tree)) = run.entered

\* C13: the base name is the display name with one trailing size suffix
\* removed when the name ends, in any letter case, in an optional '_' or
\* '-', then 16, 24 or 32, then an optional 'dp'; a name without such a
\* suffix is unchanged.  The components are named base_16, base_24,
\* base_32: "home" and "home_24" both give the set "home" with components
\* home_16, home_24, home_32.
SizeSuffixes ==
  {sep \o num \o unit :
     sep \in {<<>>, <<"_">>, <<"-">>},
     num \in {<<"1", "6">>, <<"2", "4">>, <<"3", "2">>},
     unit \in {<<>>} \cup ({"d", "D"} \X {"p", "P"})}

EndsWith(s, x) ==
  Len(x) <= Len(s) /\ SubSeq(s, Len(s) - Len(x) + 1, Len(s)) = x

Home == <<"h", "o", "m", "e">>

C13_BaseNameStripsSuffix ==
  npc = "named" =>
    LET ending == {x \in SizeSuffixes : EndsWith(name, x)}
        longest == CHOOSE x \in ending : \A y \in ending : Len(y) <= Len(x)
    IN /\ ending = {} => named.base = name
       /\ ending # {} => named.base \o longest = name
       /\ named.components =
            << named.base \o <<"_", "1", "6">>,
               named.base \o <<"_", "2", "4">>,
               named.base \o <<"_", "3", "2">> >>
       /\ name \in {Home, Home \o <<"_", "2", "4">>} =>
            /\ named.base = Home
            /\ named.components[2] = <<"h", "o", "m", "e", "_", "2", "4">>

C13_Witness ==
  /\ npc = "named"
  /\ name = <<"h", "o", "m", "e", "_", "2", "4">>
  /\ named.base = Home

\* C19: at any time at most one createComponentSet call has started and
\* neither returned nor thrown, and a handler creates at most one output
\* container, whatever normalize-results messages are delivered and
\* whenever they arrive.
Assembling == {h \in DOMAIN hpc : hpc[h] = "font"}

C19_OneAssemblyAtATime ==
  /\ Cardinality(Assembling) <= 1
  /\ \A h \in DOMAIN frames : frames[h] <= 1

====
